---- MODULE Spec2Model ----
(***************************************************************************)
(* calculate-csp-hashes.py: the tree walk (find_html_files), the block     *)
(* extraction and hashing of one document (process_html_file,              *)
(* calculate_hash) and the aggregation and report (main).                  *)
(*                                                                         *)
(* A Python str is a sequence of one-character strings, so that the        *)
(* regular expressions, str.strip, `in`, startswith/endswith and the       *)
(* ordering used by sorted() are computed on the characters.               *)
(***************************************************************************)
EXTENDS Integers, Sequences, FiniteSets, TLC

VARIABLES fs, pc, stack, html_files, i, all_script_hashes, all_style_hashes, out

vars == <<fs, pc, stack, html_files, i, all_script_hashes, all_style_hashes, out>>

----------------------------------------------------------------------------
(* Characters *)

UpperLetters == <<"A","B","C","D","E","F","G","H","I","J","K","L","M","N","O","P","Q","R","S","T","U","V","W","X","Y","Z">>

LowerLetters == <<"a","b","c","d","e","f","g","h","i","j","k","l","m","n","o","p","q","r","s","t","u","v","w","x","y","z">>

\* The characters of a hash token in code point order: sorted() compares
\* strings by code point, and Ord keeps that order.
CodePointOrder == <<"'","+","-","/","0","1","2","3","4","5","6","7","8","9","=">> \o UpperLetters \o LowerLetters

Ord ==
    [c \in {CodePointOrder[k] : k \in 1..Len(CodePointOrder)} |->
        CHOOSE k \in 1..Len(CodePointOrder) : CodePointOrder[k] = c]

\* re.IGNORECASE compares a character of the text with a letter of the
\* pattern up to case.
LowerOf ==
    [c \in {UpperLetters[k] : k \in 1..Len(UpperLetters)} |->
        LowerLetters[CHOOSE k \in 1..Len(UpperLetters) : UpperLetters[k] = c]]

Lower(c) == IF c \in DOMAIN LowerOf THEN LowerOf[c] ELSE c

\* The characters str.strip() removes (those that occur in the documents).
Whitespace == {" ", "\n", "\t"}

----------------------------------------------------------------------------
(* str operations *)

\* sub in s
Contains(s, sub) ==
    \E k \in 1..(Len(s) - Len(sub) + 1) : SubSeq(s, k, k + Len(sub) - 1) = sub

\* s.startswith(prefix)
StartsWith(s, prefix) ==
    Len(prefix) <= Len(s) /\ SubSeq(s, 1, Len(prefix)) = prefix

\* s.endswith(suffix)
EndsWith(s, suffix) ==
    Len(suffix) <= Len(s) /\ SubSeq(s, Len(s) - Len(suffix) + 1, Len(s)) = suffix

RECURSIVE lstrip(_)
lstrip(s) ==
    IF s # <<>> /\ Head(s) \in Whitespace THEN lstrip(Tail(s)) ELSE s

RECURSIVE rstrip(_)
rstrip(s) ==
    IF s # <<>> /\ s[Len(s)] \in Whitespace
    THEN rstrip(SubSeq(s, 1, Len(s) - 1)) ELSE s

\* s.strip()
strip(s) == rstrip(lstrip(s))

----------------------------------------------------------------------------
(* The two regular expressions, matched with re.IGNORECASE:                *)
(*   <script[^>]*>([\s\S]*?)</script>     <style[^>]*>([\s\S]*?)</style>   *)
(* Both have the shape  open [^>]* > ( [\s\S]*? ) close  with literal open *)
(* and close.                                                              *)

script_open == <<"<","s","c","r","i","p","t">>

script_close == <<"<","/","s","c","r","i","p","t",">">>

style_open == <<"<","s","t","y","l","e">>

style_close == <<"<","/","s","t","y","l","e",">">>

\* The literal lit matches text at position p, letters compared up to case.
LiteralAt(text, p, lit) ==
    /\ p + Len(lit) - 1 <= Len(text)
    /\ \A k \in 1..Len(lit) : Lower(text[p + k - 1]) = Lower(lit[k])

\* The first position >= p holding the character c, or 0.
RECURSIVE FindChar(_, _, _)
FindChar(text, p, c) ==
    IF p > Len(text) THEN 0
    ELSE IF text[p] = c THEN p
    ELSE FindChar(text, p + 1, c)

\* The first position >= p where the literal matches, or 0.
RECURSIVE FindLiteral(_, _, _)
FindLiteral(text, p, lit) ==
    IF p + Len(lit) - 1 > Len(text) THEN 0
    ELSE IF LiteralAt(text, p, lit) THEN p
    ELSE FindLiteral(text, p + 1, lit)

NoMatch == [start |-> 0, end |-> 0, group0 |-> <<>>, group1 |-> <<>>]

\* The match of the pattern that starts at position p, or NoMatch.
\* [^>]* runs to the first ">" after the literal; the lazy group runs to the
\* nearest closing tag after it.  end is the position after the match.
MatchAt(open, close, text, p) ==
    IF ~LiteralAt(text, p, open) THEN NoMatch
    ELSE LET gt == FindChar(text, p + Len(open), ">")
         IN  IF gt = 0 THEN NoMatch
             ELSE LET c == FindLiteral(text, gt + 1, close)
                  IN  IF c = 0 THEN NoMatch
                      ELSE [start  |-> p,
                            end    |-> c + Len(close),
                            group0 |-> SubSeq(text, p, c + Len(close) - 1),
                            group1 |-> SubSeq(text, gt + 1, c - 1)]

\* The leftmost match at or after position p, or NoMatch.
RECURSIVE search(_, _, _, _)
search(open, close, text, p) ==
    IF p > Len(text) THEN NoMatch
    ELSE LET m == MatchAt(open, close, text, p)
         IN  IF m.start # 0 THEN m ELSE search(open, close, text, p + 1)

\* The non-overlapping matches from position p on, left to right.
RECURSIVE finditerFrom(_, _, _, _)
finditerFrom(open, close, text, p) ==
    LET m == search(open, close, text, p)
    IN  IF m.start = 0 THEN <<>>
        ELSE <<m>> \o finditerFrom(open, close, text, m.end)

\* re.finditer(pattern, content, re.IGNORECASE)
finditer(open, close, text) == finditerFrom(open, close, text, 1)

----------------------------------------------------------------------------
(* calculate_hash *)

\* base64(sha256(content.encode('utf-8'))) of the block contents that occur
\* in the documents below, as hashlib and base64 compute them.
calculate_hash(content) ==
    CASE content = <<"a","(",")">> -> <<"q","V","p","D","B","g","j","7","b","p","q","5","h","M","A","c","G","p","3","A","O","c","7","9","J","3","Y","1","Z","4","H","v","y","S","T","w","K","r","W","D","o","y","4","=">>
      [] content = <<"b","(",")">> -> <<"c","f","2","4","2","P","F","c","/","k","b","7","x","D","0","Q","z","h","s","m","d","9","v","v","R","k","c","+","c","W","F","m","b","i","+","k","+","Y","v","t","d","K","c","=">>
      [] content = <<"c","(",")">> -> <<"u","v","6","B","X","x","g","u","R","K","h","B","q","g","e","O","t","c","y","T","v","p","p","A","2","V","t","t","c","e","h","3","7","d","U","o","7","x","w","S","8","U","g","=">>
      [] content = <<"i",".","s","r","c","=","u">> -> <<"7","D","U","3","d","d","W","2","l","S","N","F","n","k","j","C","m","u","O","P","T","x","o","/","q","y","D","F","2","h","y","Y","D","M","V","p","b","Y","6","Q","M","U","M","=">>
      [] content = <<"p","{","}">> -> <<"g","G","2","y","I","S","Y","e","r","e","R","M","i","G","2","l","M","X","r","b","i","U","g","i","0","U","b","w","9","p","7","Q","C","e","W","c","r","o","O","v","y","9","Y","=">>
      [] content = <<"q","{","}">> -> <<"F","l","M","a","Q","0","f","Z","A","U","i","7","V","/","3","+","Z","c","p","2","W","+","a","P","f","c","3","U","I","y","t","g","3","s","J","x","2","c","i","o","L","k","M","=">>

\* f"'sha256-{hash_value}'"
hash_string_of(hash_value) == <<"'","s","h","a","2","5","6","-">> \o hash_value \o <<"'">>

----------------------------------------------------------------------------
(* The input: a directory tree with its documents *)

\* What open(file_path, encoding='utf-8').read() finds: the text of the
\* file, or a failure to open or decode it.
Readable(text) == [ok |-> TRUE, text |-> text]

Unreadable == [ok |-> FALSE, text |-> <<>>]

Catalogue ==
    << <<"<","s","c","r","i","p","t",">","a","(",")","<","/","s","c","r","i","p","t",">">>,
       <<"<","s","t","y","l","e",">","p","{","}","<","/","s","t","y","l","e",">","\n","<","s","c","r","i","p","t",">","b","(",")","<","/","s","c","r","i","p","t",">">>,
       <<"<","s","c","r","i","p","t"," ","S","R","C","=","\"","x",".","j","s","\"",">","c","(",")","<","/","s","c","r","i","p","t",">">>,
       <<"<","s","c","r","i","p","t"," ","s","r","c","=","\"","x",".","j","s","\"",">","<","/","s","c","r","i","p","t",">","<","s","c","r","i","p","t"," ","a","s","y","n","c"," ","s","r","c","=","'","y",".","j","s","'",">","b","(",")","<","/","s","c","r","i","p","t",">","<","s","t","y","l","e",">"," ","\n","<","/","s","t","y","l","e",">","<","s","c","r","i","p","t",">"," "," ","<","/","s","c","r","i","p","t",">">>,
       <<"<","s","c","r","i","p","t",">","i",".","s","r","c","=","u","<","/","s","c","r","i","p","t",">">>,
       <<"<","S","C","R","I","P","T"," ","t","y","p","e","=","\"","m","\"",">","\n","a","(",")","\n","<","/","S","C","R","I","P","T",">","<","s","c","r","i","p","t",">","a","(",")","<","/","s","c","r","i","p","t",">","<","s","t","y","l","e",">","p","{","}","<","/","s","t","y","l","e",">","<","S","t","y","l","e"," ","m","e","d","i","a","=","x",">","q","{","}","<","/","s","t","y","l","e",">">>,
       <<"<","s","c","r","i","p","t",">","c","(",")","<","/","s","c","r","i","p","t",">","\n","<","s","c","r","i","p","t",">","b","(",")","<","/","s","c","r","i","p","t",">","<","s","t","y","l","e",">","q","{","}","<","/","s","t","y","l","e",">","<","s","c","r","i","p","t",">","a","(",")">>,
       <<"<","s","t","y","l","e",">","q","{","}","<","/","s","t","y","l","e",">","<","s","c","r","i","p","t",">","a","(",")">> >>

\* The number of catalogue documents the files draw their text from (at
\* most Len(Catalogue)).
MaxDocs == 7

Docs == {Catalogue[k] : k \in 1..MaxDocs}

Contents == {Readable(d) : d \in Docs} \cup {Unreadable}

DirNames == { <<"p","u","b">>, <<".","g","i","t">>, <<"n","o","d","e","_","m","o","d","u","l","e","s">> }

\* os.path.join(root, name): a path is the sequence of its names below
\* base_dir.
join(root, name) == Append(root, name)

base_dir == <<>>

\* The tree: base_dir holds README.md, index.html (when hasIndex) and the
\* directory n1; the directory n2 lies in n1 (nested) or next to it; n1 holds
\* a.html and page.htm, n2 holds b.html and x.html.bak.
Tree(n1, n2, nested, r1, r2, hasIndex, c1, c2) ==
    LET p1 == join(base_dir, n1)
        p2 == IF nested THEN join(p1, n2) ELSE join(base_dir, n2)
        f0 == join(base_dir, <<"i","n","d","e","x",".","h","t","m","l">>)
        f1 == join(p1, <<"a",".","h","t","m","l">>)
        f2 == join(p2, <<"b",".","h","t","m","l">>)
    IN  [dirs |->
            [p \in {base_dir, p1, p2} |->
                IF p = base_dir
                THEN [readable |-> TRUE,
                      dirs  |-> IF nested THEN {n1} ELSE {n1, n2},
                      files |-> { <<"R","E","A","D","M","E",".","m","d">> } \cup
                                (IF hasIndex THEN { <<"i","n","d","e","x",".","h","t","m","l">> } ELSE {})]
                ELSE IF p = p1
                THEN [readable |-> r1,
                      dirs  |-> IF nested THEN {n2} ELSE {},
                      files |-> { <<"a",".","h","t","m","l">>, <<"p","a","g","e",".","h","t","m">> }]
                ELSE [readable |-> r2,
                      dirs  |-> {},
                      files |-> { <<"b",".","h","t","m","l">>, <<"x",".","h","t","m","l",".","b","a","k">> }]],
         content |->
            [f \in {f1, f2} \cup (IF hasIndex THEN {f0} ELSE {}) |->
                IF f = f1 THEN c1
                ELSE IF f = f2 THEN c2
                ELSE Readable(Catalogue[1])]]

\* Two directories of one parent have different names.
Trees ==
    { Tree(t[1], t[2], t[3], t[4], t[5], t[6], t[7], t[8]) :
        t \in { u \in DirNames \X DirNames \X BOOLEAN \X BOOLEAN \X BOOLEAN
                      \X BOOLEAN \X Contents \X Contents :
                  u[3] \/ u[1] # u[2] } }

----------------------------------------------------------------------------
(* process_html_file *)

\* print(f"Error reading {file_path}: {e}")
ErrorLine(file_path) == [kind |-> "Error reading", path |-> file_path, text |-> <<>>]

\* print(f"Script hash for {file_path}: sha256-{hash_value}")
ScriptLine(file_path, hash_value) ==
    [kind |-> "Script hash for", path |-> file_path, text |-> <<"s","h","a","2","5","6","-">> \o hash_value]

\* print(f"Style hash for {file_path}: sha256-{hash_value}")
StyleLine(file_path, hash_value) ==
    [kind |-> "Style hash for", path |-> file_path, text |-> <<"s","h","a","2","5","6","-">> \o hash_value]

\* A line of fixed text, or a rendered line of tokens.
TextLine(text) == [kind |-> "text", path |-> <<>>, text |-> text]

\* hashes = {'scripts': [], 'styles': []}, with the lines printed so far.
NoHashes == [scripts |-> <<>>, styles |-> <<>>, out |-> <<>>]

\* The except branch without its print.
ReadFailedSilent(file_path) == NoHashes

\* The except branch: the failure is printed and the empty hashes returned.
ReadFailed(file_path) == [NoHashes EXCEPT !.out = <<ErrorLine(file_path)>>]

\* script_content and 'src=' not in script_tag
IsInlineScript(script_tag, script_content) ==
    script_content # <<>> /\ ~Contains(script_tag, <<"s","r","c","=">>)

\* The test for a token already listed left out.
NotInDropped(hash_string, list) == TRUE

\* hash_string not in hashes[...]
NotIn(hash_string, list) ==
    \A k \in 1..Len(list) : list[k] # hash_string

\* The body of the loop over the script matches.
ScriptStep(hashes, match, file_path) ==
    LET script_tag     == match.group0
        script_content == strip(match.group1)
        hash_value     == calculate_hash(script_content)
        hash_string    == hash_string_of(hash_value)
    IN  IF IsInlineScript(script_tag, script_content)
           /\ NotIn(hash_string, hashes.scripts)
        THEN [hashes EXCEPT !.scripts = Append(@, hash_string),
                            !.out = Append(@, ScriptLine(file_path, hash_value))]
        ELSE hashes

\* The body of the loop over the style matches.
StyleStep(hashes, match, file_path) ==
    LET style_content == strip(match.group1)
        hash_value    == calculate_hash(style_content)
        hash_string   == hash_string_of(hash_value)
    IN  IF style_content # <<>> /\ NotIn(hash_string, hashes.styles)
        THEN [hashes EXCEPT !.styles = Append(@, hash_string),
                            !.out = Append(@, StyleLine(file_path, hash_value))]
        ELSE hashes

RECURSIVE ScriptLoop(_, _, _)
ScriptLoop(hashes, matches, file_path) ==
    IF matches = <<>> THEN hashes
    ELSE ScriptLoop(ScriptStep(hashes, Head(matches), file_path),
                    Tail(matches), file_path)

RECURSIVE StyleLoop(_, _, _)
StyleLoop(hashes, matches, file_path) ==
    IF matches = <<>> THEN hashes
    ELSE StyleLoop(StyleStep(hashes, Head(matches), file_path),
                   Tail(matches), file_path)

\* The two loops in the other order.
ExtractStylesFirst(content, file_path) ==
    ScriptLoop(StyleLoop(NoHashes, finditer(style_open, style_close, content),
                         file_path),
               finditer(script_open, script_close, content), file_path)

\* The extraction from the text read: the script loop, then the style loop.
Extract(content, file_path) ==
    StyleLoop(ScriptLoop(NoHashes, finditer(script_open, script_close, content),
                         file_path),
              finditer(style_open, style_close, content), file_path)

\* Extract on every file path and document text of the trees, computed once.
Extracted ==
    { [file_path |-> x[1], text |-> x[2], hashes |-> Extract(x[2], x[1])] :
        x \in (UNION {DOMAIN t.content : t \in Trees}) \X Docs }

\* process_html_file(file_path) on the file system tree: the hashes
\* returned and the lines printed.
process_html_file(tree, file_path) ==
    IF ~tree.content[file_path].ok THEN ReadFailed(file_path)
    ELSE (CHOOSE e \in Extracted :
            e.file_path = file_path /\ e.text = tree.content[file_path].text).hashes

----------------------------------------------------------------------------
(* find_html_files *)

\* All orders in which a directory listing can give the names of S.
RECURSIVE Orders(_)
Orders(S) ==
    IF S = {} THEN {<<>>}
    ELSE UNION { { <<x>> \o rest : rest \in Orders(S \ {x}) } : x \in S }

\* The pruning without the node_modules test.
KeepDirHiddenOnly(d) == ~StartsWith(d, <<".">>)

\* d is kept by: not d.startswith('.') and d != 'node_modules'
KeepDir(d) == ~StartsWith(d, <<".">>) /\ d # <<"n","o","d","e","_","m","o","d","u","l","e","s">>

\* file.endswith('.html')
IsHtml(file) == EndsWith(file, <<".","h","t","m","l">>)

\* dirs[:] = [d for d in dirs if ...], as the paths os.walk descends into.
RECURSIVE KeptDirs(_, _)
KeptDirs(dirs, root) ==
    IF dirs = <<>> THEN <<>>
    ELSE (IF KeepDir(Head(dirs)) THEN <<join(root, Head(dirs))>> ELSE <<>>)
         \o KeptDirs(Tail(dirs), root)

\* The paths the loop over files appends to html_files.
RECURSIVE HtmlFiles(_, _)
HtmlFiles(files, root) ==
    IF files = <<>> THEN <<>>
    ELSE (IF IsHtml(Head(files)) THEN <<join(root, Head(files))>> ELSE <<>>)
         \o HtmlFiles(Tail(files), root)

----------------------------------------------------------------------------
(* main: aggregation and report *)

\* The set replaced by the list instead of extended by it.
update_replacing(set, list) == {list[k] : k \in 1..Len(list)}

\* set.update(list)
update(set, list) == set \cup {list[k] : k \in 1..Len(list)}

\* a < b for Python strings: by the first differing character, a proper
\* prefix first.
RECURSIVE StrLess(_, _)
StrLess(a, b) ==
    IF a = <<>> THEN b # <<>>
    ELSE IF b = <<>> THEN FALSE
    ELSE IF Head(a) = Head(b) THEN StrLess(Tail(a), Tail(b))
    ELSE Ord[Head(a)] < Ord[Head(b)]

\* The set listed greatest first.
RECURSIVE sorted_descending(_)
sorted_descending(S) ==
    IF S = {} THEN <<>>
    ELSE LET greatest == CHOOSE x \in S : \A y \in S \ {x} : StrLess(y, x)
         IN  <<greatest>> \o sorted_descending(S \ {greatest})

\* sorted(set)
RECURSIVE sorted(_)
sorted(S) ==
    IF S = {} THEN <<>>
    ELSE LET least == CHOOSE x \in S : \A y \in S \ {x} : StrLess(x, y)
         IN  <<least>> \o sorted(S \ {least})

\* ' '.join(list)
RECURSIVE join_space(_)
join_space(list) ==
    IF list = <<>> THEN <<>>
    ELSE IF Len(list) = 1 THEN list[1]
    ELSE list[1] \o <<" ">> \o join_space(Tail(list))

Banner == <<"C","a","l","c","u","l","a","t","i","n","g"," ","C","S","P"," ","h","a","s","h","e","s"," ","f","o","r"," ","i","n","l","i","n","e"," ","s","c","r","i","p","t","s"," ","a","n","d"," ","s","t","y","l","e","s",".",".",".">>

ConfigHeader == <<"=","=","="," ","C","S","P"," ","C","o","n","f","i","g","u","r","a","t","i","o","n"," ","=","=","=">>

ScriptHeader == <<"s","c","r","i","p","t","-","s","r","c"," ","h","a","s","h","e","s",":">>

StyleHeader == <<"s","t","y","l","e","-","s","r","c"," ","h","a","s","h","e","s",":">>

\* The report without its style-src section.
ReportLinesScriptsOnly(script_hashes, style_hashes) ==
    << TextLine(<<>>), TextLine(ConfigHeader),
       TextLine(<<>>), TextLine(ScriptHeader),
       TextLine(join_space(sorted(script_hashes))),
       TextLine(<<>>) >>

\* The lines the seven print calls at the end of main write.
ReportLines(script_hashes, style_hashes) ==
    << TextLine(<<>>), TextLine(ConfigHeader),
       TextLine(<<>>), TextLine(ScriptHeader),
       TextLine(join_space(sorted(script_hashes))),
       TextLine(<<>>), TextLine(StyleHeader),
       TextLine(join_space(sorted(style_hashes))),
       TextLine(<<>>) >>

----------------------------------------------------------------------------
(* The run of main on a tree *)

\* main has printed its banner and calls find_html_files(base_dir).
Init ==
    /\ fs \in Trees
    /\ pc = "walk"
    /\ stack = <<base_dir>>
    /\ html_files = <<>>
    /\ i = 1
    /\ all_script_hashes = {}
    /\ all_style_hashes = {}
    /\ out = <<TextLine(Banner), TextLine(<<>>)>>

\* os.walk reaches a directory whose listing fails: with no onerror handler
\* the error is dropped and nothing is yielded for the directory.
WalkUnreadable ==
    /\ pc = "walk"
    /\ stack # <<>>
    /\ ~fs.dirs[Head(stack)].readable
    /\ stack' = Tail(stack)
    /\ UNCHANGED <<fs, pc, html_files, i, all_script_hashes, all_style_hashes, out>>

\* os.walk yields (root, dirs, files) for the next directory, the loop body
\* prunes dirs and collects the .html files, and the walk goes on into the
\* directories kept, depth first.  The listing order is the file system's.
WalkDir ==
    /\ pc = "walk"
    /\ stack # <<>>
    /\ fs.dirs[Head(stack)].readable
    /\ LET root == Head(stack)
       IN  \E dirs \in Orders(fs.dirs[root].dirs),
              files \in Orders(fs.dirs[root].files) :
                /\ html_files' = html_files \o HtmlFiles(files, root)
                /\ stack' = KeptDirs(dirs, root) \o Tail(stack)
    /\ UNCHANGED <<fs, pc, i, all_script_hashes, all_style_hashes, out>>

\* The walk is over: find_html_files returns and main makes the two sets.
WalkReturn ==
    /\ pc = "walk"
    /\ stack = <<>>
    /\ pc' = "loop"
    /\ i' = 1
    /\ all_script_hashes' = {}
    /\ all_style_hashes' = {}
    /\ UNCHANGED <<fs, stack, html_files, out>>

\* One iteration of the loop over html_files.
LoopBody ==
    /\ pc = "loop"
    /\ i <= Len(html_files)
    /\ LET hashes == process_html_file(fs, html_files[i])
       IN  /\ all_script_hashes' = update(all_script_hashes, hashes.scripts)
           /\ all_style_hashes' = update(all_style_hashes, hashes.styles)
           /\ out' = out \o hashes.out
    /\ i' = i + 1
    /\ UNCHANGED <<fs, pc, stack, html_files>>

\* The loop is over: the report is printed and main returns.
Report ==
    /\ pc = "loop"
    /\ i > Len(html_files)
    /\ out' = out \o ReportLines(all_script_hashes, all_style_hashes)
    /\ pc' = "done"
    /\ UNCHANGED <<fs, stack, html_files, i, all_script_hashes, all_style_hashes>>

Next == WalkUnreadable \/ WalkDir \/ WalkReturn \/ LoopBody \/ Report

Spec == Init /\ [][Next]_vars

\* main runs to its end: no step of it waits for anything.
FairSpec == Spec /\ WF_vars(Next)

----------------------------------------------------------------------------
(* Notions the properties are stated in *)

Range(seq) == {seq[k] : k \in 1..Len(seq)}

ScriptKind == "Script hash for"

StyleKind == "Style hash for"

\* The files whose loop iteration is over.
Processed == IF pc = "walk" THEN {} ELSE {html_files[k] : k \in 1..(i - 1)}

ProcessedReadable == {f \in Processed : fs.content[f].ok}

Text(f) == fs.content[f].text

ScriptMatches(f) == Range(finditer(script_open, script_close, Text(f)))

StyleMatches(f) == Range(finditer(style_open, style_close, Text(f)))

\* The opening tag of a matched region: the match up to its first ">".
OpeningTag(m) == SubSeq(m.group0, 1, FindChar(m.group0, 1, ">"))

\* sub occurs in s in some letter case.
ContainsAnyCase(s, sub) == \E k \in 1..Len(s) : LiteralAt(s, k, sub)

\* The token of a block content.
Token(content) == hash_string_of(calculate_hash(content))

\* The trimmed contents of the script blocks and of the style blocks that
\* process_html_file emits from the text of f.
EmittedScripts(f) ==
    { strip(m.group1) :
        m \in {n \in ScriptMatches(f) : IsInlineScript(n.group0, strip(n.group1))} }

EmittedStyles(f) ==
    { strip(m.group1) : m \in {n \in StyleMatches(f) : strip(n.group1) # <<>>} }

Emitted(kind, f) == IF kind = ScriptKind THEN EmittedScripts(f) ELSE EmittedStyles(f)

\* The diagnostic lines printed so far, as positions of out.
Diagnostics == {k \in 1..Len(out) : out[k].kind \in {ScriptKind, StyleKind}}

\* The tokens of a rendered line: the parts between its spaces.
RECURSIVE Split(_)
Split(line) ==
    IF line = <<>> THEN <<>>
    ELSE LET sp == FindChar(line, 1, " ")
         IN  IF sp = 0 THEN <<line>>
             ELSE <<SubSeq(line, 1, sp - 1)>> \o Split(SubSeq(line, sp + 1, Len(line)))

\* The report is the end of the output.
ReportPrinted ==
    /\ Len(out) >= 9
    /\ LET r == SubSeq(out, Len(out) - 8, Len(out))
       IN  /\ \A k \in 1..9 : r[k].kind = "text"
           /\ r[1].text = <<>> /\ r[2].text = ConfigHeader
           /\ r[3].text = <<>> /\ r[4].text = ScriptHeader
           /\ r[6].text = <<>> /\ r[7].text = StyleHeader
           /\ r[9].text = <<>>

ScriptTokenLine == out[Len(out) - 4].text

StyleTokenLine == out[Len(out) - 1].text

\* A directory name the walk is to skip.
ExcludedName(d) == d[1] = "." \/ d = <<"n","o","d","e","_","m","o","d","u","l","e","s">>

\* The directories reached from base_dir through directories with names that
\* are not excluded, whether or not they can be listed.
RECURSIVE ReachedByName(_)
ReachedByName(p) ==
    \/ p = base_dir
    \/ LET parent == SubSeq(p, 1, Len(p) - 1)
       IN  /\ parent \in DOMAIN fs.dirs
           /\ p[Len(p)] \in fs.dirs[parent].dirs
           /\ ~ExcludedName(p[Len(p)])
           /\ ReachedByName(parent)

\* The same, through directories that can all be listed as well.
RECURSIVE ReachedListing(_)
ReachedListing(p) ==
    \/ p = base_dir
    \/ LET parent == SubSeq(p, 1, Len(p) - 1)
       IN  /\ parent \in DOMAIN fs.dirs
           /\ p[Len(p)] \in fs.dirs[parent].dirs
           /\ ~ExcludedName(p[Len(p)])
           /\ fs.dirs[parent].readable
           /\ ReachedListing(parent)

\* The files with a name ending in .html that lie in the directories dirs.
HtmlIn(dirs) ==
    UNION { {join(p, f) : f \in {g \in fs.dirs[p].files : EndsWith(g, <<".","h","t","m","l">>)}} :
            p \in dirs }

\* The position in the text of f of the opening tag of the first block of
\* the kind that is emitted with the diagnostic text.
BlockStart(kind, f, text) ==
    LET starts ==
          IF kind = ScriptKind
          THEN {m.start : m \in {n \in ScriptMatches(f) :
                    /\ IsInlineScript(n.group0, strip(n.group1))
                    /\ <<"s","h","a","2","5","6","-">> \o calculate_hash(strip(n.group1)) = text}}
          ELSE {m.start : m \in {n \in StyleMatches(f) :
                    /\ strip(n.group1) # <<>>
                    /\ <<"s","h","a","2","5","6","-">> \o calculate_hash(strip(n.group1)) = text}}
    IN  CHOOSE s \in starts : \A t \in starts : s <= t

----------------------------------------------------------------------------
(* Aggregation *)

\* C1: once main has processed any number of documents, the scripts set is
\* exactly the set of tokens of the script blocks emitted from the readable
\* documents processed, one token for each distinct trimmed content however
\* many documents hold it and however often; the same for the styles set.
C1_Aggregation ==
    LET scripts == UNION {EmittedScripts(f) : f \in ProcessedReadable}
        styles  == UNION {EmittedStyles(f) : f \in ProcessedReadable}
    IN  pc # "walk" =>
          /\ all_script_hashes = {Token(c) : c \in scripts}
          /\ Cardinality(all_script_hashes) = Cardinality(scripts)
          /\ all_style_hashes = {Token(c) : c \in styles}
          /\ Cardinality(all_style_hashes) = Cardinality(styles)

\* Two documents with a script block in common and one that only the
\* second holds have been processed.
C1_Witness ==
    /\ pc = "done"
    /\ \E f \in ProcessedReadable, g \in ProcessedReadable :
         /\ f # g
         /\ EmittedScripts(f) \cap EmittedScripts(g) # {}
         /\ EmittedScripts(g) \ EmittedScripts(f) # {}
         /\ Cardinality(all_script_hashes) =
              Cardinality(EmittedScripts(f)) + Cardinality(EmittedScripts(g)) - 1

----------------------------------------------------------------------------
(* The src= rule *)

\* C2: a script region whose opening tag holds src= in any letter case adds
\* no token: every token of the scripts set is the token of a region of a
\* processed document whose opening tag holds no src= in any case (and
\* whose trimmed body is not empty).
C2_SrcAnyCaseExcluded ==
    pc = "done" =>
      \A t \in all_script_hashes :
        \E f \in ProcessedReadable : \E m \in ScriptMatches(f) :
          /\ ~ContainsAnyCase(OpeningTag(m), <<"s","r","c","=">>)
          /\ strip(m.group1) # <<>>
          /\ Token(strip(m.group1)) = t

\* C3: a script region with a non-empty trimmed body and an opening tag
\* without src= is emitted whatever its body holds: its token is in the
\* scripts set once its document has been processed.
C3_BodyDoesNotExclude ==
    \A f \in ProcessedReadable : \A m \in ScriptMatches(f) :
      (strip(m.group1) # <<>> /\ ~ContainsAnyCase(OpeningTag(m), <<"s","r","c","=">>))
        => Token(strip(m.group1)) \in all_script_hashes

----------------------------------------------------------------------------
(* Failures *)

\* C4: the loop iteration on a file that cannot be read prints the failure
\* and nothing else, leaves both sets as they are and goes on to the next
\* file; and when main is done every file found has been processed.
C4_ReadFailureSkipsFile ==
    /\ [][(pc = "loop" /\ i <= Len(html_files) /\ ~fs.content[html_files[i]].ok)
            => /\ out' = Append(out, ErrorLine(html_files[i]))
               /\ all_script_hashes' = all_script_hashes
               /\ all_style_hashes' = all_style_hashes
               /\ pc' = "loop" /\ i' = i + 1]_vars
    /\ [](pc = "done" => Processed = Range(html_files))

\* A file that could not be read was followed by one whose blocks were
\* emitted.
C4_Witness ==
    /\ pc = "done"
    /\ \E k \in 1..(Len(html_files) - 1) :
         /\ ~fs.content[html_files[k]].ok
         /\ fs.content[html_files[k + 1]].ok
         /\ EmittedScripts(html_files[k + 1]) # {}
         /\ \E n \in 1..Len(out) : out[n] = ErrorLine(html_files[k])

\* C5: a directory the walk reaches and cannot list is skipped with a
\* diagnostic for it, and the .html files of the directories beside it are
\* still returned.
C5_UnreadableDirDiagnosed ==
    pc # "walk" =>
      \A p \in DOMAIN fs.dirs :
        (ReachedListing(p) /\ ~fs.dirs[p].readable) =>
          /\ \E n \in 1..Len(out) : out[n].kind # "text" /\ out[n].path = p
          /\ \A q \in DOMAIN fs.dirs :
               (ReachedListing(q) /\ fs.dirs[q].readable)
                 => HtmlIn({q}) \subseteq Range(html_files)

----------------------------------------------------------------------------
(* The walk *)

\* C6 as stated: find_html_files returns exactly the files named *.html in
\* base_dir or in a directory reached through directories none of which has
\* an excluded name.
C6_ExactlyByName ==
    pc # "walk" =>
      /\ Range(html_files) = HtmlIn({p \in DOMAIN fs.dirs : ReachedByName(p)})
      /\ Cardinality(Range(html_files)) = Len(html_files)

\* C6 amended: ... reached through directories none of which has an
\* excluded name and each of which can be listed; each file once.
C6_ExactlyByNameAndListing ==
    pc # "walk" =>
      /\ Range(html_files) = HtmlIn({p \in DOMAIN fs.dirs :
                                       ReachedListing(p) /\ fs.dirs[p].readable})
      /\ Cardinality(Range(html_files)) = Len(html_files)

\* The walk returned the files of two directories and left out those of an
\* excluded one.
C6_Witness ==
    /\ pc = "loop"
    /\ Len(html_files) >= 2
    /\ \E p \in DOMAIN fs.dirs :
         /\ p # base_dir /\ ExcludedName(p[Len(p)])
         /\ HtmlIn({p}) # {} /\ HtmlIn({p}) \cap Range(html_files) = {}

----------------------------------------------------------------------------
(* The report *)

\* C7: each of the two token lines of the report is in strictly increasing
\* string order (sorted, no token twice), and is the rendering of the set of
\* tokens of the documents found, whatever the order they were listed and
\* processed in.
C7_SortedAndOrderFree ==
    (pc = "done" /\ ReportPrinted) =>
      LET found   == {f \in Range(html_files) : fs.content[f].ok}
          scripts == {Token(c) : c \in UNION {EmittedScripts(f) : f \in found}}
          styles  == {Token(c) : c \in UNION {EmittedStyles(f) : f \in found}}
          sline   == Split(ScriptTokenLine)
          tline   == Split(StyleTokenLine)
      IN  /\ \A k \in 1..(Len(sline) - 1) : StrLess(sline[k], sline[k + 1])
          /\ \A k \in 1..(Len(tline) - 1) : StrLess(tline[k], tline[k + 1])
          /\ Range(sline) = scripts
          /\ Range(tline) = styles

\* The first file processed gave a script token that sorts after the script
\* token the second one gave.
C7_Witness ==
    /\ pc = "done" /\ ReportPrinted
    /\ Len(html_files) >= 2
    /\ fs.content[html_files[1]].ok /\ fs.content[html_files[2]].ok
    /\ \E c \in EmittedScripts(html_files[1]), d \in EmittedScripts(html_files[2]) :
         StrLess(Token(d), Token(c))
    /\ Len(Split(ScriptTokenLine)) >= 2

\* C8: on every tree the run of main comes to its end with the report
\* printed last: the configuration header, the script-src section and the
\* style-src section, each with its token line.
C8_ReportAlwaysPrinted == <>(pc = "done" /\ ReportPrinted)

\* A run ended with the report although a file could not be read and no
\* inline block was found.
C8_Witness ==
    /\ pc = "done" /\ ReportPrinted
    /\ \E n \in 1..Len(out) : out[n].kind = "Error reading"
    /\ all_script_hashes = {} /\ all_style_hashes = {}
    /\ ScriptTokenLine = <<>> /\ StyleTokenLine = <<>>

----------------------------------------------------------------------------
(* The diagnostic lines *)

\* C9 as stated: over a whole run a token of a kind has one diagnostic
\* line, also when several files hold it.
C9_OneLinePerToken ==
    \A a \in Diagnostics, b \in Diagnostics :
      (out[a].kind = out[b].kind /\ out[a].text = out[b].text) => a = b

\* C9 amended: a token of a kind has one diagnostic line for every file
\* that holds it: no two lines agree in kind, file and token, and every
\* processed file has a line for each token of the blocks emitted from it.
C9_OneLinePerTokenAndFile ==
    /\ \A a \in Diagnostics, b \in Diagnostics :
         (out[a].kind = out[b].kind /\ out[a].path = out[b].path
            /\ out[a].text = out[b].text) => a = b
    /\ \A f \in ProcessedReadable : \A kind \in {ScriptKind, StyleKind} :
         \A c \in Emitted(kind, f) :
           \E a \in Diagnostics :
             /\ out[a].kind = kind /\ out[a].path = f
             /\ out[a].text = <<"s","h","a","2","5","6","-">> \o calculate_hash(c)
    /\ \A a \in Diagnostics :
         /\ out[a].path \in ProcessedReadable
         /\ \E c \in Emitted(out[a].kind, out[a].path) :
              out[a].text = <<"s","h","a","2","5","6","-">> \o calculate_hash(c)

\* A token has a line for each of two files, one of which holds its block
\* twice.
C9_Witness ==
    \E a \in Diagnostics, b \in Diagnostics :
      /\ out[a].kind = ScriptKind /\ out[b].kind = ScriptKind
      /\ out[a].text = out[b].text /\ out[a].path # out[b].path
      /\ Len(finditer(script_open, script_close, Text(out[a].path))) >
           Cardinality(EmittedScripts(out[a].path))
      /\ Cardinality(EmittedScripts(out[a].path)) = 1

\* C10 as stated: the lines of one document come in the order of the
\* opening tags of their blocks, script and style alike.
C10_SourceOrder ==
    \A a \in Diagnostics, b \in Diagnostics :
      (a < b /\ out[a].path = out[b].path) =>
        BlockStart(out[a].kind, out[a].path, out[a].text)
          < BlockStart(out[b].kind, out[b].path, out[b].text)

\* C10 amended: the lines of one document come kind by kind, the script
\* blocks before the style blocks, and within a kind in the order of the
\* opening tags.
C10_SourceOrderWithinKind ==
    \A a \in Diagnostics, b \in Diagnostics :
      (a < b /\ out[a].path = out[b].path) =>
        /\ ~(out[a].kind = StyleKind /\ out[b].kind = ScriptKind)
        /\ out[a].kind = out[b].kind =>
             BlockStart(out[a].kind, out[a].path, out[a].text)
               < BlockStart(out[b].kind, out[b].path, out[b].text)

\* A document gave a script line and then two style lines.
C10_Witness ==
    \E a \in Diagnostics, b \in Diagnostics, c \in Diagnostics :
      /\ a < b /\ b < c
      /\ out[a].path = out[b].path /\ out[b].path = out[c].path
      /\ out[a].kind = ScriptKind /\ out[b].kind = StyleKind
      /\ out[c].kind = StyleKind

====
